---- MODULE Spec2Model ----
(***************************************************************************)
(* A model of the MediaFlow Proxy launchers (src/launcher1.py and the      *)
(* older variant src/launcher.py): configuration parsing, certificate      *)
(* provisioning on disk, and the assembly of the uvicorn configuration.    *)
(*                                                                         *)
(* Strings the code inspects character by character (PORT, the boolean     *)
(* flags, CERT_ADDITIONAL_IPS, the discovered addresses) are sequences of  *)
(* one-character strings, so that strip, lower, split, int() and the IPv4  *)
(* parser are computed as Python computes them.  Strings the code only     *)
(* passes along (HOST, file paths, log levels) are plain TLA+ strings.     *)
(***************************************************************************)
EXTENDS Integers, Sequences, FiniteSets, TLC

VARIABLES
    environ,      \* os.environ: the variables the launchers read
    disk,         \* <base>/bin, bin/server.pem and bin/server.key
    calls,        \* number of ensure_cert calls made so far (process starts)
    pc,           \* position of launcher1.main in the current process
    validated,    \* what validate_config returned and printed (launcher1.py)
    legacy,       \* what launcher.py's setup_environment + validate_config gave
    flags,        \* enable_http2 as parsed by main
    provision,    \* what ensure_cert returned, did and printed
    uvicorn_cfg   \* the dictionary build_uvicorn_config returned

vars == <<environ, disk, calls, pc, validated, legacy, flags, provision, uvicorn_cfg>>

(***************************************************************************)
(* Bounds of the model.                                                    *)
(***************************************************************************)
\* ensure_cert calls (process starts) in one behaviour
MaxCalls == 3
\* entries of CERT_ADDITIONAL_IPS
MaxEntries == 2
\* length of the enumerated PORT strings
MaxPortLen == 3
\* length of the enumerated flag strings
MaxFlagLen == 2

(***************************************************************************)
(* Python string operations on sequences of characters.                    *)
(***************************************************************************)
\* Python's None, as the value of an unset variable: no string of characters
\* equals it, since every character is a one-character string.
None == <<"<None>">>

Whitespace == {" ", "\t"}

Digits == {"0", "1", "2", "3", "4", "5", "6", "7", "8", "9"}

DigitValue(c) ==
    CASE c = "0" -> 0 [] c = "1" -> 1 [] c = "2" -> 2 [] c = "3" -> 3
      [] c = "4" -> 4 [] c = "5" -> 5 [] c = "6" -> 6 [] c = "7" -> 7
      [] c = "8" -> 8 [] c = "9" -> 9

\* str.lower() on one character (the letters the inputs use)
LowerChar(c) ==
    CASE c = "T" -> "t" [] c = "R" -> "r" [] c = "U" -> "u" [] c = "E" -> "e"
      [] c = "Y" -> "y" [] c = "S" -> "s" [] c = "O" -> "o" [] c = "N" -> "n"
      [] c = "F" -> "f" [] c = "A" -> "a" [] c = "L" -> "l"
      [] OTHER -> c

lower(s) == [i \in 1..Len(s) |-> LowerChar(s[i])]

\* str.strip(): drop leading and trailing whitespace
RECURSIVE lstrip(_)
lstrip(s) == IF s # <<>> /\ Head(s) \in Whitespace THEN lstrip(Tail(s)) ELSE s

RECURSIVE rstrip(_)
rstrip(s) ==
    IF s # <<>> /\ s[Len(s)] \in Whitespace
    THEN rstrip(SubSeq(s, 1, Len(s) - 1))
    ELSE s

strip(s) == rstrip(lstrip(s))

\* str.split(sep): the pieces between the separators, empty pieces kept
RECURSIVE split(_, _)
split(s, sep) ==
    IF \A i \in 1..Len(s) : s[i] # sep
    THEN <<s>>
    ELSE LET k == CHOOSE i \in 1..Len(s) :
                      s[i] = sep /\ \A j \in 1..(i - 1) : s[j] # sep
         IN  <<SubSeq(s, 1, k - 1)>> \o split(SubSeq(s, k + 1, Len(s)), sep)

\* the value of a sequence of decimal digits
RECURSIVE DecValue(_)
DecValue(ds) ==
    IF ds = <<>> THEN 0
    ELSE 10 * DecValue(SubSeq(ds, 1, Len(ds) - 1)) + DigitValue(ds[Len(ds)])

IsDigit(c) == c \in Digits

\* int(str): surrounding whitespace is dropped, one sign is allowed, and the
\* rest is decimal digits with single underscores between digits; anything
\* else is a ValueError.
py_int(s) ==
    LET t      == strip(s)
        signed == t # <<>> /\ t[1] \in {"+", "-"}
        body   == IF signed THEN Tail(t) ELSE t
        ok     == /\ body # <<>>
                  /\ \A i \in 1..Len(body) : body[i] \in Digits \cup {"_"}
                  /\ body[1] # "_"
                  /\ body[Len(body)] # "_"
                  /\ \A i \in 1..(Len(body) - 1) :
                         ~(body[i] = "_" /\ body[i + 1] = "_")
        mag    == DecValue(SelectSeq(body, IsDigit))
    IN  IF ok
        THEN [ok |-> TRUE, val |-> IF signed /\ t[1] = "-" THEN 0 - mag ELSE mag]
        ELSE [ok |-> FALSE, val |-> 0]

(***************************************************************************)
(* The environment.  os.environ is a dictionary: a function whose domain   *)
(* is the set of variables that are set.                                   *)
(***************************************************************************)
getenv(env, name, default) == IF name \in DOMAIN env THEN env[name] ELSE default

setdefault(env, name, value) == IF name \in DOMAIN env THEN env ELSE (name :> value) @@ env

\* "1", "true", "yes", "on"
TrueWords == {<<"1">>, <<"t", "r", "u", "e">>, <<"y", "e", "s">>, <<"o", "n">>}

parse_bool(value, default) ==
    IF value = None THEN default ELSE lower(strip(value)) \in TrueWords

DefaultPort == 8888

MaxPort == 65535

DefaultPortText == <<"8", "8", "8", "8">>

\* a variant whose lower limit is off by one
PortInRange_from_zero(port) == 0 <= port /\ port <= MaxPort

\* line 37 (launcher.py: line 47)
PortInRange(port) == 1 <= port /\ port <= MaxPort

\* launcher1.validate_config: (port, debug) and the warnings it prints
validate_config(env) ==
    LET r      == py_int(getenv(env, "PORT", DefaultPortText))
        ok     == r.ok /\ PortInRange(r.val)
        api_pw == getenv(env, "API_PASSWORD", "")
    IN  [ port         |-> IF ok THEN r.val ELSE DefaultPort,
          port_warning |-> ~ok,
          pw_warning   |-> api_pw = "" \/ api_pw = "changeme",
          debug        |-> parse_bool(getenv(env, "DEBUG", None), FALSE) ]

\* launcher.setup_environment: the defaults it puts in os.environ
setup_environment(env) ==
    setdefault(setdefault(setdefault(env, "API_PASSWORD", "changeme"),
                          "PORT", DefaultPortText),
               "DEBUG", <<"f", "a", "l", "s", "e">>)

\* launcher.validate_config (the older launcher)
legacy_validate_config(env) ==
    LET r  == py_int(getenv(env, "PORT", DefaultPortText))
        ok == r.ok /\ PortInRange(r.val)
    IN  [ port         |-> IF ok THEN r.val ELSE DefaultPort,
          port_warning |-> ~ok,
          pw_warning   |-> getenv(env, "API_PASSWORD", "") = "changeme",
          debug        |-> lower(getenv(env, "DEBUG", <<"f", "a", "l", "s", "e">>))
                               = <<"t", "r", "u", "e">> ]

(***************************************************************************)
(* Addresses.  ipaddress.IPv4Address(text): four decimal octets separated  *)
(* by dots, each of one to three ASCII digits, without a leading zero, at  *)
(* most 255.  A parsed address is the tuple of its octets: two addresses   *)
(* are equal when their octets are.                                        *)
(***************************************************************************)
OctetOk(part) ==
    /\ part # <<>>
    /\ \A i \in 1..Len(part) : part[i] \in Digits
    /\ Len(part) <= 3
    /\ (Len(part) > 1 => part[1] # "0")
    /\ DecValue(part) <= 255

IPv4Address(text) ==
    LET parts == split(text, ".")
        ok    == Len(parts) = 4 /\ \A i \in 1..4 : OctetOk(parts[i])
    IN  IF ok
        THEN [ok |-> TRUE, addr |-> [i \in 1..4 |-> DecValue(parts[i])]]
        ELSE [ok |-> FALSE, addr |-> <<>>]

DNSName(name) == [kind |-> "DNS", name |-> name, addr |-> <<>>]

IPAddress(addr) == [kind |-> "IP", name |-> "", addr |-> addr]

Loopback4Text == <<"1", "2", "7", ".", "0", ".", "0", ".", "1">>

\* ipaddress.IPv6Address("::1"), as its eight groups
Loopback6 == <<0, 0, 0, 0, 0, 0, 0, 1>>

SeedSan == << DNSName("localhost"),
              IPAddress(IPv4Address(Loopback4Text).addr),
              IPAddress(Loopback6) >>

IsIn(x, seq) == \E i \in 1..Len(seq) : seq[i] = x

\* lines 124-131: socket.gethostbyname(socket.gethostname()); net.hostname_ip
\* is None when the lookup raises
add_hostname_ip(acc, net) ==
    LET local_ip == net.hostname_ip
        a        == IPv4Address(local_ip)
    IN  IF local_ip # None /\ local_ip # Loopback4Text /\ a.ok
        THEN [acc EXCEPT !.san_list = @ \o <<IPAddress(a.addr)>>,
                         !.detected_ips = @ \o <<local_ip>>]
        ELSE acc

\* lines 134-143: the local end of a UDP socket connected to 8.8.8.8;
\* net.primary_ip is None when the socket calls raise
add_primary_ip(acc, net) ==
    LET primary_ip == net.primary_ip
        a          == IPv4Address(primary_ip)
    IN  IF /\ primary_ip # None
           /\ ~IsIn(primary_ip, <<Loopback4Text>> \o acc.detected_ips)
           /\ a.ok
        THEN [acc EXCEPT !.san_list = @ \o <<IPAddress(a.addr)>>,
                         !.detected_ips = @ \o <<primary_ip>>]
        ELSE acc

\* lines 148-155: one entry of CERT_ADDITIONAL_IPS
add_custom_ip(acc, entry) ==
    LET ip == strip(entry)
        a  == IPv4Address(ip)
    IN  IF ip = <<>> THEN acc
        ELSE IF a.ok
        THEN [acc EXCEPT !.san_list = @ \o <<IPAddress(a.addr)>>,
                         !.detected_ips = @ \o <<ip>>]
        ELSE [acc EXCEPT !.invalid = @ \o <<ip>>]

RECURSIVE add_custom_ips(_, _)
add_custom_ips(acc, entries) ==
    IF entries = <<>> THEN acc
    ELSE add_custom_ips(add_custom_ip(acc, Head(entries)), Tail(entries))

\* lines 115-157: the subject-alternative-name list, the detected addresses
\* and the entries reported as invalid
build_san_list(env, net) ==
    LET seed       == [san_list |-> SeedSan, detected_ips |-> <<>>, invalid |-> <<>>]
        discovered == add_primary_ip(add_hostname_ip(seed, net), net)
        custom_ips == strip(getenv(env, "CERT_ADDITIONAL_IPS", <<>>))
    IN  IF custom_ips # <<>>
        THEN add_custom_ips(discovered, split(custom_ips, ","))
        ELSE discovered

(***************************************************************************)
(* The disk.  A file is absent, empty (created or truncated by open and    *)
(* never written), partial (a write that failed part-way) or full; gen is  *)
(* the ensure_cert call whose generation wrote its bytes.                  *)
(***************************************************************************)
AbsentFile == [state |-> "absent", gen |-> 0]

EmptyFile == [state |-> "empty", gen |-> 0]

Written(state, gen) == [state |-> state, gen |-> gen]

exists(file) == file.state # "absent"

st_size(file) == file.state \in {"partial", "full"}

CertPath == "bin/server.pem"

KeyPath == "bin/server.key"

NoTls == [k \in {} |-> ""]

TlsPaths == [ssl_certfile |-> CertPath, ssl_keyfile |-> KeyPath]

\* a variant whose size test is inverted
certs_usable_when_empty(d, stat_fails) ==
    exists(d.cert) /\ exists(d.key) /\ ~stat_fails /\ ~(st_size(d.cert) /\ st_size(d.key))

\* lines 90-96: the existing pair is used when both files exist and both
\* sizes are non-zero; a stat error only prints and falls through
certs_usable(d, stat_fails) ==
    exists(d.cert) /\ exists(d.key) /\ ~stat_fails /\ st_size(d.cert) /\ st_size(d.key)

\* the file-system calls of lines 90-92, in order ("and" short-circuits)
probe_ops(d) ==
    IF ~exists(d.cert) THEN <<"exists_cert">>
    ELSE IF ~exists(d.key) THEN <<"exists_cert", "exists_key">>
    ELSE <<"exists_cert", "exists_key", "stat">>

(***************************************************************************)
(* ensure_cert.  faults says which steps the environment makes fail in     *)
(* this call: mkdir (creating bin is refused), stat (the size check        *)
(* raises) and gen, the step of the guarded block (lines 98-191) that      *)
(* raises.  A write that raises leaves the file, already truncated by      *)
(* open, either empty or partly written.                                   *)
(***************************************************************************)
GenFaults == { "none", "import", "keygen", "build", "cert_open",
               "cert_write_empty", "cert_write_partial",
               "key_open", "key_write_empty", "key_write_partial" }

\* the position of the failing step in the guarded block
FaultStage(fault) ==
    CASE fault = "import" -> 1
      [] fault = "keygen" -> 2
      [] fault = "build" -> 3
      [] fault = "cert_open" -> 4
      [] fault \in {"cert_write_empty", "cert_write_partial"} -> 5
      [] fault = "key_open" -> 6
      [] fault \in {"key_write_empty", "key_write_partial"} -> 7
      [] OTHER -> 8

Result(outcome, tls, protocol, d, ops, msgs, san) ==
    [ outcome      |-> outcome,
      ssl_config   |-> tls,
      protocol     |-> protocol,
      disk         |-> d,
      ops          |-> ops,
      msgs         |-> msgs,
      san_list     |-> san.san_list,
      detected_ips |-> san.detected_ips,
      invalid      |-> san.invalid ]

NoSan == [san_list |-> <<>>, detected_ips |-> <<>>, invalid |-> <<>>]

\* lines 98-191: generate the key and the certificate and write both files
generate_pair(env, d, run, fault, net, ops, msgs) ==
    LET stage == FaultStage(fault)
        san   == IF stage >= 3 THEN build_san_list(env, net) ELSE NoSan
        cert  == CASE stage <= 4 -> d.cert
                   [] fault = "cert_write_empty" -> EmptyFile
                   [] fault = "cert_write_partial" -> Written("partial", run)
                   [] OTHER -> Written("full", run)
        key   == CASE stage <= 6 -> d.key
                   [] fault = "key_write_empty" -> EmptyFile
                   [] fault = "key_write_partial" -> Written("partial", run)
                   [] OTHER -> Written("full", run)
        wrote == CASE stage <= 3 -> <<>>
                   [] stage = 4 -> <<"open_cert">>
                   [] stage = 5 -> <<"open_cert", "write_cert">>
                   [] stage = 6 -> <<"open_cert", "write_cert", "open_key">>
                   [] OTHER -> <<"open_cert", "write_cert", "open_key", "write_key">>
        after == [d EXCEPT !.cert = cert, !.key = key]
    IN  IF stage = 8
        THEN Result("Generated", TlsPaths, "HTTPS", after, ops \o wrote,
                    msgs \o <<"generated">>, san)
        ELSE Result("FellBackToHTTP", NoTls, "HTTP", after, ops \o wrote,
                    msgs \o <<IF stage = 1 THEN "crypto_unavailable"
                                           ELSE "error_generating">>,
                    IF stage >= 4 THEN san ELSE [san EXCEPT !.san_list = <<>>])

\* lines 85-191: everything ensure_cert does once HTTPS is not disabled
provision_tls(env, d, run, faults, net) ==
    IF d.bin = "absent" /\ faults.mkdir
    THEN Result("Raised", NoTls, "", d, <<"mkdir">>, <<>>, NoSan)
    ELSE LET d1   == [d EXCEPT !.bin = "dir"]
             ops  == <<"mkdir">> \o probe_ops(d1)
             both == exists(d1.cert) /\ exists(d1.key)
         IN  IF certs_usable(d1, faults.stat)
             THEN Result("Reused", TlsPaths, "HTTPS", d1, ops,
                         <<"using_existing">>, NoSan)
             ELSE generate_pair(env, d1, run, faults.gen, net, ops,
                                IF both /\ faults.stat
                                THEN <<"error_reading">> ELSE <<>>)

\* a variant that creates bin before it looks at DISABLE_HTTPS
ensure_cert_mkdir_first(env, d, run, faults, net) ==
    IF d.bin = "absent" /\ faults.mkdir
    THEN Result("Raised", NoTls, "", d, <<"mkdir">>, <<>>, NoSan)
    ELSE IF parse_bool(getenv(env, "DISABLE_HTTPS", None), FALSE)
    THEN Result("Disabled", NoTls, "HTTP", [d EXCEPT !.bin = "dir"],
                <<"mkdir">>, <<"https_disabled">>, NoSan)
    ELSE provision_tls(env, d, run, faults, net)

\* lines 77-191
ensure_cert(env, d, run, faults, net) ==
    IF parse_bool(getenv(env, "DISABLE_HTTPS", None), FALSE)
    THEN Result("Disabled", NoTls, "HTTP", d, <<>>, <<"https_disabled">>, NoSan)
    ELSE provision_tls(env, d, run, faults, net)

\* a variant that looks at the HTTP/2 flag alone
build_uvicorn_config_flag_only(port, host, ssl_config, enable_http2, debug) ==
    ssl_config @@
    [ app                 |-> "mediaflow_proxy.main:app",
      host                |-> host,
      port                |-> port,
      log_level           |-> IF debug THEN "debug" ELSE "info",
      proxy_headers       |-> TRUE,
      forwarded_allow_ips |-> "*",
      http                |-> IF enable_http2 THEN "h11" ELSE "auto" ]

\* lines 206-223; config.update(ssl_config) lets ssl_config's keys win
build_uvicorn_config(port, host, ssl_config, enable_http2, debug) ==
    ssl_config @@
    [ app                 |-> "mediaflow_proxy.main:app",
      host                |-> host,
      port                |-> port,
      log_level           |-> IF debug THEN "debug" ELSE "info",
      proxy_headers       |-> TRUE,
      forwarded_allow_ips |-> "*",
      http                |-> IF DOMAIN ssl_config # {} /\ enable_http2
                              THEN "h11" ELSE "auto" ]

(***************************************************************************)
(* The inputs the model draws.                                             *)
(***************************************************************************)
Strings(alphabet, n) == UNION { [1..k -> alphabet] : k \in 0..n }

Join(a, b) == a \o <<",">> \o b

FlagAlphabet == {"o", "n", "O", "1", " "}

FlagSamples ==
    { <<"t", "r", "u", "e">>,
      <<"T", "R", "U", "E">>,
      <<"T", "r", "u", "e">>,
      <<"t", "R", "u", "E">>,
      <<"y", "e", "s">>,
      <<"Y", "E", "S">>,
      <<"Y", "e", "s">>,
      <<"f", "a", "l", "s", "e">>,
      <<"0">>,
      <<"n", "o">>,
      <<"o", "f", "f">>,
      <<" ", "t", "r", "u", "e", " ">>,
      <<"\t", "y", "e", "s">>,
      <<"t", "r", "u", "e", "e">>,
      <<"y">>,
      <<"o", "n", " ">> }

FlagInputs == Strings(FlagAlphabet, MaxFlagLen) \cup FlagSamples

FlagNames == {"DEBUG", "DISABLE_HTTPS", "UVICORN_HTTP2"}

PortAlphabet == {"0", "1", "9", "-", " ", "a"}

PortSamples ==
    { <<"8", "0", "8", "0">>,
      <<"8", "8", "8", "8">>,
      <<"6", "5", "5", "3", "5">>,
      <<"6", "5", "5", "3", "6">>,
      <<"9", "9", "9", "9", "9">>,
      <<"+", "8", "0">>,
      <<"8", "_", "0">>,
      <<"_", "8", "0">>,
      <<"8", "_", "_", "0">>,
      <<" ", "4", "4", "3", " ">>,
      <<"1", "e", "3">>,
      <<"0", "x", "1", "F">>,
      <<"4", ".", "0">>,
      <<"-", "1">>,
      <<"0", "0", "0", "8", "0">> }

PortInputs == Strings(PortAlphabet, MaxPortLen) \cup PortSamples

PasswordInputs == {"changeme", "s3cret"}

LanText == <<"1", "0", ".", "0", ".", "0", ".", "5">>

OtherLanText == <<"1", "0", ".", "0", ".", "0", ".", "9">>

\* entries an operator may put in CERT_ADDITIONAL_IPS
CustomEntries ==
    { <<"1", "2", "7", ".", "0", ".", "0", ".", "1">>,
      <<"1", "0", ".", "0", ".", "0", ".", "5">>,
      <<" ", "1", "0", ".", "0", ".", "0", ".", "7", " ">>,
      <<"f", "e", "8", "0", ":", ":", "1">>,
      <<"b", "a", "d">>,
      <<"2", "5", "6", ".", "0", ".", "0", ".", "1">>,
      <<>>,
      <<"0", "1", ".", "2", ".", "3", ".", "4">> }

RECURSIVE CustomLists(_)
CustomLists(n) ==
    IF n = 1 THEN CustomEntries
    ELSE CustomLists(n - 1) \cup
         { Join(a, b) : a \in CustomLists(n - 1), b \in CustomEntries }

NetInputs ==
    [ hostname_ip : {None, Loopback4Text, LanText},
      primary_ip  : {None, LanText, OtherLanText} ]

PlainNet == [hostname_ip |-> LanText, primary_ip |-> LanText]

Faults == [mkdir : BOOLEAN, stat : BOOLEAN, gen : GenFaults]

NoFaults == [mkdir |-> FALSE, stat |-> FALSE, gen |-> "none"]

EmptyEnv == [k \in {} |-> <<>>]

\* the environments of the certificate life cycle: HTTPS on or off, the
\* HTTP/2 preference on or off, debug on or off
CertEnvs ==
    { d @@ h @@ g : d \in {EmptyEnv, "DISABLE_HTTPS" :> <<"t", "r", "u", "e">>},
                    h \in {EmptyEnv, "UVICORN_HTTP2" :> <<"0">>},
                    g \in {EmptyEnv, "DEBUG" :> <<"y", "e", "s">>} }

ConfigEnvs ==
    { "PORT" :> p : p \in PortInputs }
      \cup { ("PORT" :> p) @@ ("API_PASSWORD" :> w) :
                 p \in PortSamples, w \in PasswordInputs }
      \cup { "API_PASSWORD" :> w : w \in PasswordInputs }
      \cup { f :> v : f \in FlagNames, v \in FlagInputs }
      \cup { "HOST" :> "127.0.0.1", EmptyEnv }

SanEnvs ==
    { "CERT_ADDITIONAL_IPS" :> c : c \in CustomLists(MaxEntries) } \cup {EmptyEnv}

(***************************************************************************)
(* The state machine: one process start after another of launcher1.main,   *)
(* and the older launcher's start-up on the same environment.              *)
(***************************************************************************)
NoConfig == [port |-> 0, port_warning |-> FALSE, pw_warning |-> FALSE, debug |-> FALSE]

NoFlags == [host |-> "", enable_http2 |-> FALSE]

NoLegacy == [done |-> FALSE, port |-> 0, port_warning |-> FALSE,
             pw_warning |-> FALSE, debug |-> FALSE]

NoProvision ==
    [ outcome |-> "None", ssl_config |-> NoTls, protocol |-> "",
      pre |-> [bin |-> "absent", cert |-> AbsentFile, key |-> AbsentFile],
      ops |-> <<>>, msgs |-> <<>>, san_list |-> <<>>, detected_ips |-> <<>>,
      invalid |-> <<>>, enabled |-> FALSE ]

InitIn(envs) ==
    /\ environ \in envs
    /\ disk \in [bin : {"absent", "dir"}, cert : {AbsentFile}, key : {AbsentFile}]
    /\ calls = 0
    /\ pc = "start"
    /\ validated = NoConfig
    /\ legacy = NoLegacy
    /\ flags = NoFlags
    /\ provision = NoProvision
    /\ uvicorn_cfg = NoTls

\* launcher1.main, lines 232-234
MainResolveConfig ==
    /\ pc = "start"
    /\ validated' = validate_config(environ)
    /\ flags' = [ host |-> getenv(environ, "HOST", "0.0.0.0"),
                  enable_http2 |->
                      parse_bool(getenv(environ, "UVICORN_HTTP2", None), TRUE) ]
    /\ pc' = "configured"
    /\ UNCHANGED <<environ, disk, calls, legacy, provision, uvicorn_cfg>>

\* launcher1.main, line 238: an exception of ensure_cert ends the process
EnsureCert(faults, net) ==
    /\ pc = "configured"
    /\ LET r == ensure_cert(environ, disk, calls + 1, faults, net)
       IN  /\ provision' =
                 [ outcome |-> r.outcome, ssl_config |-> r.ssl_config,
                   protocol |-> r.protocol, pre |-> disk, ops |-> r.ops,
                   msgs |-> r.msgs, san_list |-> r.san_list,
                   detected_ips |-> r.detected_ips, invalid |-> r.invalid,
                   enabled |-> r.outcome # "Disabled" ]
           /\ disk' = r.disk
           /\ pc' = IF r.outcome = "Raised" THEN "crashed" ELSE "provisioned"
    /\ calls' = calls + 1
    /\ UNCHANGED <<environ, validated, legacy, flags, uvicorn_cfg>>

\* launcher1.main, line 241, then uvicorn.run
BuildUvicornConfig ==
    /\ pc = "provisioned"
    /\ uvicorn_cfg' = build_uvicorn_config(validated.port, flags.host,
                          provision.ssl_config, flags.enable_http2, validated.debug)
    /\ pc' = "serving"
    /\ UNCHANGED <<environ, disk, calls, validated, legacy, flags, provision>>

\* the process ends and the operator starts it again, possibly with another
\* environment; the files under bin stay
Restart(env) ==
    /\ pc \in {"serving", "crashed"}
    /\ calls < MaxCalls
    /\ environ' = env
    /\ pc' = "start"
    /\ validated' = NoConfig
    /\ flags' = NoFlags
    /\ uvicorn_cfg' = NoTls
    /\ UNCHANGED <<disk, calls, legacy, provision>>

\* launcher.py: main's setup_environment, then validate_config
LegacyValidateConfig ==
    /\ ~legacy.done
    /\ LET r == legacy_validate_config(setup_environment(environ))
       IN  legacy' = [ done |-> TRUE, port |-> r.port,
                       port_warning |-> r.port_warning,
                       pw_warning |-> r.pw_warning, debug |-> r.debug ]
    /\ UNCHANGED <<environ, disk, calls, pc, validated, flags, provision, uvicorn_cfg>>

\* the certificate life cycle under failures of the file system and of the
\* crypto library
Init == InitIn(CertEnvs)

Next ==
    \/ MainResolveConfig
    \/ \E faults \in Faults : EnsureCert(faults, PlainNet)
    \/ BuildUvicornConfig
    \/ \E env \in CertEnvs : Restart(env)

Spec == Init /\ [][Next]_vars

\* one start of each launcher on every configuration input
InitConfig == InitIn(ConfigEnvs)

NextConfig ==
    \/ MainResolveConfig
    \/ LegacyValidateConfig
    \/ EnsureCert(NoFaults, PlainNet)
    \/ BuildUvicornConfig

SpecConfig == InitConfig /\ [][NextConfig]_vars

\* one start on every CERT_ADDITIONAL_IPS and every outcome of the lookups
InitSan == InitIn(SanEnvs)

NextSan ==
    \/ MainResolveConfig
    \/ \E net \in NetInputs : EnsureCert(NoFaults, net)
    \/ BuildUvicornConfig

SpecSan == InitSan /\ [][NextSan]_vars

(***************************************************************************)
(* Properties.                                                             *)
(***************************************************************************)
Returned == {"Disabled", "Reused", "Generated", "FellBackToHTTP"}

\* C1: with HTTPS not disabled, ensure_cert never raises: every call
\* returns, and a call in which a provisioning step failed returns the
\* empty TLS configuration with "HTTP".
C1_NeverRaises ==
    provision.enabled =>
        /\ provision.outcome \in Returned
        /\ (provision.outcome = "FellBackToHTTP" =>
                provision.ssl_config = NoTls /\ provision.protocol = "HTTP")

\* C2: starting with neither file on disk and HTTPS enabled, a call without
\* a failure generates the pair, and the next call without a failure
\* returns the same paths with "HTTPS" by reuse: it opens and writes no
\* file and leaves the disk as it was.
C2_GenerateOnceThenReuse ==
    [][ /\ ( /\ calls' = calls + 1
             /\ ~exists(disk.cert) /\ ~exists(disk.key)
             /\ provision'.enabled
             /\ provision'.outcome \in {"Reused", "Generated"}
             => /\ provision'.outcome = "Generated"
                /\ disk'.cert = Written("full", calls')
                /\ disk'.key = Written("full", calls') )
        /\ ( /\ calls' = calls + 1
             /\ provision.outcome = "Generated"
             /\ ~exists(provision.pre.cert) /\ ~exists(provision.pre.key)
             /\ provision'.enabled
             /\ ~IsIn("error_reading", provision'.msgs)
             => /\ provision'.outcome = "Reused"
                /\ provision'.ssl_config = provision.ssl_config
                /\ provision'.protocol = "HTTPS"
                /\ ~IsIn("open_cert", provision'.ops)
                /\ ~IsIn("open_key", provision'.ops)
                /\ disk' = disk ) ]_vars

C2_Witness ==
    /\ calls = 2
    /\ provision.outcome = "Reused"
    /\ provision.ssl_config = TlsPaths
    /\ disk.cert = Written("full", 1)
    /\ disk.key = Written("full", 1)

\* C3: when DISABLE_HTTPS parses as true, ensure_cert returns the empty TLS
\* configuration with "HTTP" whatever is on disk, and does nothing else: no
\* file-system call is made and the disk is left as it was.
C3_DisabledIsTerminal ==
    [][ /\ calls' = calls + 1
        /\ parse_bool(getenv(environ, "DISABLE_HTTPS", None), FALSE)
        => /\ provision'.outcome = "Disabled"
           /\ provision'.ssl_config = NoTls
           /\ provision'.protocol = "HTTP"
           /\ provision'.ops = <<>>
           /\ disk' = disk ]_vars

C3_Witness ==
    /\ provision.outcome = "Disabled"
    /\ provision.protocol = "HTTP"
    /\ disk.cert.state = "full"
    /\ disk.key.state = "full"

\* C4: with HTTPS enabled, ensure_cert reuses the pair on disk exactly when
\* both files exist with a non-zero size (and the size check did not
\* raise); in every other case it goes on to generate a fresh pair.
C4_ReuseIffUsable ==
    provision.enabled =>
        LET usable == /\ st_size(provision.pre.cert)
                      /\ st_size(provision.pre.key)
                      /\ ~IsIn("error_reading", provision.msgs)
        IN  /\ provision.outcome = "Reused" <=> usable
            /\ ~usable => provision.outcome \in {"Generated", "FellBackToHTTP"}

\* C10: every call that returns "HTTPS" returns a certificate and a key
\* that the same generation run wrote in full; a pair left by a run that
\* failed is never returned.
C10_PairFromOneCompleteRun ==
    provision.protocol = "HTTPS" =>
        /\ disk.cert.state = "full"
        /\ disk.key.state = "full"
        /\ disk.cert.gen = disk.key.gen

\* the PORT text is an integer in 1..65535
ValidPortText(text) == py_int(text).ok /\ py_int(text).val \in 1..65535

PortResult(r) == [port |-> r.port, port_warning |-> r.port_warning]

\* C5 as stated: a PORT that is an integer in 1..65535 is returned as it is;
\* every other input, a missing PORT included, gives 8888 and a warning.
C5_MissingPortWarns ==
    LET claimed == IF "PORT" \in DOMAIN environ /\ ValidPortText(environ["PORT"])
                   THEN [port |-> py_int(environ["PORT"]).val, port_warning |-> FALSE]
                   ELSE [port |-> 8888, port_warning |-> TRUE]
    IN  /\ pc # "start" => PortResult(validated) = claimed
        /\ legacy.done => PortResult(legacy) = claimed

\* C5, amended: a PORT that is an integer in 1..65535 is returned as it is
\* without a warning; every other PORT text gives 8888 and a warning; a
\* missing PORT gives 8888 without a warning.
C5_PortResolved ==
    LET claimed == IF "PORT" \notin DOMAIN environ
                   THEN [port |-> 8888, port_warning |-> FALSE]
                   ELSE IF ValidPortText(environ["PORT"])
                   THEN [port |-> py_int(environ["PORT"]).val, port_warning |-> FALSE]
                   ELSE [port |-> 8888, port_warning |-> TRUE]
    IN  /\ pc # "start" => PortResult(validated) = claimed
        /\ legacy.done => PortResult(legacy) = claimed

C5_Witness ==
    /\ pc # "start"
    /\ legacy.done
    /\ "PORT" \notin DOMAIN environ
    /\ validated.port = 8888
    /\ ~validated.port_warning
    /\ ~legacy.port_warning

\* the parse the specification gives for every boolean flag: true exactly
\* for 1, true, yes, on in any case (surrounding whitespace aside), false
\* for every other text, the default when unset
ClaimedFlag(env, name, default) ==
    IF name \notin DOMAIN env THEN default
    ELSE \E word \in TrueWords : lower(strip(env[name])) = word

\* C6: DEBUG, DISABLE_HTTPS and the HTTP/2 preference are all parsed that
\* way, in both launchers.
C6_FlagsParsedAlike ==
    /\ pc # "start" =>
           /\ validated.debug = ClaimedFlag(environ, "DEBUG", FALSE)
           /\ flags.enable_http2 = ClaimedFlag(environ, "UVICORN_HTTP2", TRUE)
    /\ provision.outcome # "None" =>
           (provision.outcome = "Disabled")
               = ClaimedFlag(environ, "DISABLE_HTTPS", FALSE)
    /\ legacy.done => legacy.debug = ClaimedFlag(environ, "DEBUG", FALSE)

\* the IPv6 literals among the entries, with their eight groups
IPv6Literals == { <<"f", "e", "8", "0", ":", ":", "1">> }

IPv6Groups(text) == <<65152, 0, 0, 0, 0, 0, 0, 1>>

IsIPLiteral(text) == IPv4Address(text).ok \/ text \in IPv6Literals

LiteralAddress(text) ==
    IF IPv4Address(text).ok THEN IPv4Address(text).addr ELSE IPv6Groups(text)

Occurrences(x, seq) == Cardinality({i \in 1..Len(seq) : seq[i] = x})

NonBlank(text) == text # <<>>

\* the entries of CERT_ADDITIONAL_IPS, trimmed, blank ones left out
CustomIpEntries(env) ==
    LET parts == split(getenv(env, "CERT_ADDITIONAL_IPS", <<>>), ",")
    IN  SelectSeq([i \in 1..Len(parts) |-> strip(parts[i])], NonBlank)

\* C7: every entry of CERT_ADDITIONAL_IPS that is a valid IP literal is in
\* the certificate's address list and is not reported; every malformed
\* entry is left out and reported exactly once per occurrence.
C7_EveryValidEntryAdded ==
    provision.outcome = "Generated" =>
        LET entries == CustomIpEntries(environ)
        IN  \A i \in 1..Len(entries) :
                IF IsIPLiteral(entries[i])
                THEN /\ IsIn(IPAddress(LiteralAddress(entries[i])), provision.san_list)
                     /\ ~IsIn(entries[i], provision.invalid)
                ELSE Occurrences(entries[i], provision.invalid)
                         = Occurrences(entries[i], entries)

\* C8: the address list of a generated certificate holds no address twice.
C8_NoDuplicateAddresses ==
    provision.outcome = "Generated" =>
        \A i, j \in 1..Len(provision.san_list) :
            i # j => provision.san_list[i] # provision.san_list[j]

\* C9: with an empty TLS configuration the launch configuration is the same
\* whatever the HTTP/2 flag and holds no certificate or key path; "http" is
\* moved off "auto" only with a TLS configuration and the flag set.
C9_Http2OnlyWithTls ==
    pc = "serving" =>
        /\ provision.ssl_config = NoTls =>
               uvicorn_cfg = [ app                 |-> "mediaflow_proxy.main:app",
                               host                |-> flags.host,
                               port                |-> validated.port,
                               log_level           |-> IF validated.debug
                                                       THEN "debug" ELSE "info",
                               proxy_headers       |-> TRUE,
                               forwarded_allow_ips |-> "*",
                               http                |-> "auto" ]
        /\ uvicorn_cfg.http # "auto" =>
               /\ provision.ssl_config = TlsPaths
               /\ uvicorn_cfg.ssl_certfile = CertPath
               /\ uvicorn_cfg.ssl_keyfile = KeyPath
               /\ flags.enable_http2

C9_Witness ==
    /\ pc = "serving"
    /\ provision.ssl_config = NoTls
    /\ flags.enable_http2
    /\ uvicorn_cfg.http = "auto"

====
